---- MODULE Spec2Model ----
(***************************************************************************)
(* Model of the config generation backend: a schema document is loaded by  *)
(* name (SchemaRepository), turned into a dynamic pydantic model           *)
(* (ModelService), the request body is validated against it and the        *)
(* validated data is dumped under a root key (ConfigService); the          *)
(* controller maps the outcome to a response.                              *)
(*                                                                         *)
(* The validation semantics are those of the pydantic v2 types the source  *)
(* builds (create_model, Field, Optional, Union, Literal, List, conlist,   *)
(* constr): lax coercion of python input, one error per failing location,  *)
(* "smart" unions that prefer the alternative matching most exactly.       *)
(***************************************************************************)
EXTENDS Integers, Sequences, FiniteSets, TLC

VARIABLES
  pc,              \* where generate_config_endpoint stands
  request,         \* the model name of the path and the posted body
  data_models,     \* the schema documents on disk, by name
  DynamicModel,    \* the model class built from the schema
  json_data,       \* the parsed body
  validated_data,  \* the validated model instance
  final_config,    \* the mapping handed to yaml.dump
  response,        \* the response, once there is one
  stages           \* the stages run so far, in order

vars == <<pc, request, data_models, DynamicModel, json_data, validated_data,
          final_config, response, stages>>

(***************************************************************************)
(* Bounds of the explored schemas and inputs.                              *)
(***************************************************************************)
\* longest list in a request body
MaxLen == 2
\* most alternatives in a union
MaxAlts == 2
\* deepest nesting of model / list[model] fields below the root
MaxDepth == 2

(***************************************************************************)
(* Untyped JSON values, as request.json() yields them.  A string is the    *)
(* sequence of its characters; a float is n or n + 0.5.                    *)
(***************************************************************************)
JNull == [k |-> "null"]
JBool(b) == [k |-> "bool", b |-> b]
JInt(n) == [k |-> "int", n |-> n]
JFloat(n, half) == [k |-> "float", n |-> n, half |-> half]
JStr(s) == [k |-> "str", s |-> s]
JList(l) == [k |-> "list", l |-> l]
JMap(m) == [k |-> "map", m |-> m]
\* a body that is not JSON at all
Malformed == [k |-> "malformed"]
\* Python's Ellipsis, the "must be supplied" default
Ellipsis == [k |-> "ellipsis"]

Digits == <<"0", "1", "2", "3", "4", "5", "6", "7", "8", "9">>
IsDigit(c) == \E i \in 1..10 : Digits[i] = c
DigitVal(c) == (CHOOSE i \in 1..10 : Digits[i] = c) - 1

\* int("42"): a non-empty run of digits, read in base ten
RECURSIVE StrToInt(_)
StrToInt(s) ==
  IF Len(s) = 0 THEN 0
  ELSE 10 * StrToInt(SubSeq(s, 1, Len(s) - 1)) + DigitVal(s[Len(s)])
IsNumeral(s) == Len(s) > 0 /\ \A i \in 1..Len(s) : IsDigit(s[i])

\* str(42): the digits of a natural number
RECURSIVE IntToStr(_)
IntToStr(n) ==
  IF n < 10 THEN <<Digits[n + 1]>>
  ELSE Append(IntToStr(n \div 10), Digits[(n % 10) + 1])

\* the strings pydantic reads as booleans
TrueStrings == {<<"1">>, <<"o", "n">>, <<"t">>, <<"t", "r", "u", "e">>,
                <<"y">>, <<"y", "e", "s">>}
FalseStrings == {<<"0">>, <<"o", "f", "f">>, <<"f">>,
                 <<"f", "a", "l", "s", "e">>, <<"n">>, <<"n", "o">>}

\* a pattern ^[cls]+$ : one or more characters, all of the class
PatternMatches(pattern, s) ==
  Len(s) > 0 /\ \A i \in 1..Len(s) : s[i] \in pattern.cls

\* the empty dict
EmptyDict == [key \in {} |-> key]

\* dict.get(key, default)
Get(d, key, dflt) == IF key \in DOMAIN d THEN d[key] ELSE dflt

(***************************************************************************)
(* Type hints that _parse_type_definition and _create_model_from_schema    *)
(* build.  KeyError is the exception of props['model']['fields'].          *)
(***************************************************************************)
KeyError == [t |-> "KeyError"]
TScalar(kind) == [t |-> kind]
TLiteral(allowed) == [t |-> "literal", allowed |-> allowed]
TConstr(pattern) == [t |-> "constr", pattern |-> pattern]
TList(item, min_length) == [t |-> "list", item |-> item, min_length |-> min_length]
TModel(name, fields) == [t |-> "model", name |-> name, fields |-> fields]
TUnion(alts) == [t |-> "union", alts |-> alts]
TOptional(inner) == [t |-> "optional", inner |-> inner]

\* Mapping from YAML types to Python types; anything else is Any
TYPE_MAPPING == [str |-> TScalar("str"), int |-> TScalar("int"),
                 bool |-> TScalar("bool"), float |-> TScalar("float")]

RECURSIVE ContainsModel(_)
ContainsModel(d) ==
  CASE d.t = "model" -> TRUE
    [] d.t = "list" -> ContainsModel(d.item)
    [] d.t = "union" -> \E i \in 1..Len(d.alts) : ContainsModel(d.alts[i])
    [] d.t = "optional" -> ContainsModel(d.inner)
    [] OTHER -> FALSE

\* typing.Union[*types]: nested unions are flattened, equal members are kept
\* once (two generated model classes are never equal), one member is itself
RECURSIVE FlattenAlts(_)
FlattenAlts(ds) ==
  IF Len(ds) = 0 THEN <<>>
  ELSE LET d == ds[1]
           rest == FlattenAlts(Tail(ds))
       IN IF d.t = "union" THEN d.alts \o rest ELSE <<d>> \o rest

RECURSIVE DedupeAlts(_)
DedupeAlts(ds) ==
  IF Len(ds) = 0 THEN <<>>
  ELSE LET init == DedupeAlts(SubSeq(ds, 1, Len(ds) - 1))
           d == ds[Len(ds)]
       IN IF ~ContainsModel(d) /\ \E i \in 1..Len(init) : init[i] = d
          THEN init ELSE Append(init, d)

\* a variant that leaves out the alternatives that could not be resolved
UnionOfResolved(ds) ==
  LET resolved == SelectSeq(ds, LAMBDA d : d # KeyError)
      alts == DedupeAlts(FlattenAlts(resolved))
  IN IF Len(alts) = 0 THEN TScalar("any")
     ELSE IF Len(alts) = 1 THEN alts[1] ELSE TUnion(alts)

UnionOf(ds) ==
  LET alts == DedupeAlts(FlattenAlts(ds))
  IN IF \E i \in 1..Len(ds) : ds[i] = KeyError THEN KeyError
     ELSE IF Len(alts) = 1 THEN alts[1] ELSE TUnion(alts)

RECURSIVE ParseTypeDefinition(_, _, _)
RECURSIVE CreateModelFromSchema(_, _)
RECURSIVE ParseUnionTypes(_, _, _)

\* the loop of lines 30-33 over props['union']
ParseUnionTypes(model_name, field_name, alts) ==
  IF Len(alts) = 0 THEN <<>>
  ELSE Append(ParseUnionTypes(model_name, field_name, SubSeq(alts, 1, Len(alts) - 1)),
              ParseTypeDefinition(model_name, field_name, alts[Len(alts)]))

\* whether props['model']['fields'] can be read
HasNestedFields(props) ==
  "model" \in DOMAIN props /\ "fields" \in DOMAIN props["model"]

\* a variant that looks at list[str] before choices
ListBeforeChoices(model_name, field_name, props) ==
  LET field_type == Get(props, "type", "str")
      validation == Get(props, "validation", EmptyDict)
  IN IF field_type = "list[str]"
     THEN IF "pattern" \in DOMAIN validation
          THEN TList(TConstr(validation["pattern"]), 1)
          ELSE TList(TScalar("str"), 0)
     ELSE IF "choices" \in DOMAIN validation
     THEN TLiteral(validation["choices"])
     ELSE IF field_type = "model"
     THEN IF ~HasNestedFields(props) THEN KeyError
          ELSE CreateModelFromSchema(model_name \o "_" \o field_name,
                                     props["model"]["fields"])
     ELSE IF field_type = "list[model]"
     THEN IF ~HasNestedFields(props) THEN KeyError
          ELSE LET nested_model ==
                     CreateModelFromSchema(model_name \o "_" \o field_name \o "_item",
                                           props["model"]["fields"])
               IN IF nested_model = KeyError THEN KeyError
                  ELSE TList(nested_model, 0)
     ELSE Get(TYPE_MAPPING, field_type, TScalar("any"))

ParseAfterUnion(model_name, field_name, props) ==
  LET field_type == Get(props, "type", "str")
      validation == Get(props, "validation", EmptyDict)
  IN IF "choices" \in DOMAIN validation
     THEN TLiteral(validation["choices"])
     ELSE IF field_type = "model"
     THEN IF ~HasNestedFields(props) THEN KeyError
          ELSE CreateModelFromSchema(model_name \o "_" \o field_name,
                                     props["model"]["fields"])
     ELSE IF field_type = "list[model]"
     THEN IF ~HasNestedFields(props) THEN KeyError
          ELSE LET nested_model ==
                     CreateModelFromSchema(model_name \o "_" \o field_name \o "_item",
                                           props["model"]["fields"])
               IN IF nested_model = KeyError THEN KeyError
                  ELSE TList(nested_model, 0)
     ELSE IF field_type = "list[str]"
     THEN IF "pattern" \in DOMAIN validation
          THEN TList(TConstr(validation["pattern"]), 1)
          ELSE TList(TScalar("str"), 0)
     ELSE Get(TYPE_MAPPING, field_type, TScalar("any"))

ParseTypeDefinition(model_name, field_name, props) ==
  IF "union" \in DOMAIN props
  THEN UnionOf(ParseUnionTypes(model_name, field_name, props["union"]))
  ELSE ParseAfterUnion(model_name, field_name, props)

\* a variant that keeps ge and le for int only
FieldArgsIntOnly(field_props) ==
  LET validation == Get(field_props, "validation", EmptyDict)
      declared == Get(field_props, "type", "")
      Keep(key, on) == IF on /\ key \in DOMAIN validation
                       THEN key :> validation[key] ELSE EmptyDict
  IN Keep("pattern", declared = "str")
     @@ Keep("ge", declared = "int")
     @@ Keep("le", declared = "int")
     @@ Keep("max_length", declared = "str")

\* the keyword arguments of Field(...): the default, and the constraints the
\* declared type admits
FieldArgs(field_props) ==
  LET validation == Get(field_props, "validation", EmptyDict)
      declared == Get(field_props, "type", "")
      Keep(key, on) == IF on /\ key \in DOMAIN validation
                       THEN key :> validation[key] ELSE EmptyDict
  IN Keep("pattern", declared = "str")
     @@ Keep("ge", declared \in {"int", "float"})
     @@ Keep("le", declared \in {"int", "float"})
     @@ Keep("max_length", declared = "str")

\* a variant whose default is None also for a required field
ModelFieldDefaultNone(model_name, field_name, field_props) ==
  LET parsed == ParseTypeDefinition(model_name, field_name, field_props)
      is_required == Get(field_props, "required", FALSE)
      default == Get(field_props, "default", JNull)
  IN IF parsed = KeyError THEN KeyError
     ELSE [name |-> field_name,
           hint |-> IF is_required THEN parsed ELSE TOptional(parsed),
           default |-> default,
           args |-> FieldArgs(field_props)]

\* one (type hint, Field) pair of the generated model
ModelField(model_name, field_name, field_props) ==
  LET parsed == ParseTypeDefinition(model_name, field_name, field_props)
      is_required == Get(field_props, "required", FALSE)
      default == Get(field_props, "default", IF is_required THEN Ellipsis ELSE JNull)
  IN IF parsed = KeyError THEN KeyError
     ELSE [name |-> field_name,
           hint |-> IF is_required THEN parsed ELSE TOptional(parsed),
           default |-> default,
           args |-> FieldArgs(field_props)]

RECURSIVE ModelFields(_, _)
ModelFields(model_name, schema_fields) ==
  IF Len(schema_fields) = 0 THEN <<>>
  ELSE Append(ModelFields(model_name, SubSeq(schema_fields, 1, Len(schema_fields) - 1)),
              ModelField(model_name, schema_fields[Len(schema_fields)].name,
                         schema_fields[Len(schema_fields)].props))

CreateModelFromSchema(model_name, schema_fields) ==
  LET fields == ModelFields(model_name, schema_fields)
  IN IF \E i \in 1..Len(fields) : fields[i] = KeyError THEN KeyError
     ELSE TModel(model_name, fields)

(***************************************************************************)
(* Validation of a value against a type hint, as calling DynamicModel on   *)
(* the body does it.  A result carries the validated value, how exactly the input   *)
(* matched (2 exact, 1 strict, 0 lax), the number of model fields the      *)
(* input set (-1 when no model was built) and the errors, each a location  *)
(* and an error type.                                                      *)
(***************************************************************************)
Key(name) == [key |-> name]
Idx(i) == [idx |-> i]
Tag(label) == [tag |-> label]

Pass(val, ex) == [ok |-> TRUE, val |-> val, ex |-> ex, fs |-> -1, errs |-> <<>>]
Fail(loc, type) ==
  [ok |-> FALSE, val |-> JNull, ex |-> 0, fs |-> -1,
   errs |-> <<[loc |-> loc, type |-> type]>>]

Min(a, b) == IF a < b THEN a ELSE b
\* fields_set counts add up; -1 stands for "none counted"
AddFs(a, b) == IF a < 0 THEN b ELSE IF b < 0 THEN a ELSE a + b

ValidateStr(v, loc) ==
  IF v.k = "str" THEN Pass(v, 2) ELSE Fail(loc, "string_type")

ValidateInt(v, loc) ==
  CASE v.k = "int" -> Pass(v, 2)
    [] v.k = "bool" -> Pass(JInt(IF v.b THEN 1 ELSE 0), 0)
    [] v.k = "float" -> IF v.half THEN Fail(loc, "int_from_float")
                        ELSE Pass(JInt(v.n), 0)
    [] v.k = "str" -> IF IsNumeral(v.s) THEN Pass(JInt(StrToInt(v.s)), 0)
                      ELSE Fail(loc, "int_parsing")
    [] OTHER -> Fail(loc, "int_type")

ValidateFloat(v, loc) ==
  CASE v.k = "float" -> Pass(v, 2)
    [] v.k = "int" -> Pass(JFloat(v.n, FALSE), 1)
    [] v.k = "bool" -> Pass(JFloat(IF v.b THEN 1 ELSE 0, FALSE), 0)
    [] v.k = "str" -> IF IsNumeral(v.s) THEN Pass(JFloat(StrToInt(v.s), FALSE), 0)
                      ELSE Fail(loc, "float_parsing")
    [] OTHER -> Fail(loc, "float_type")

ValidateBool(v, loc) ==
  CASE v.k = "bool" -> Pass(v, 2)
    [] v.k = "int" -> IF v.n \in {0, 1} THEN Pass(JBool(v.n = 1), 0)
                      ELSE Fail(loc, "bool_parsing")
    [] v.k = "float" -> IF v.n \in {0, 1} /\ ~v.half THEN Pass(JBool(v.n = 1), 0)
                        ELSE Fail(loc, "bool_parsing")
    [] v.k = "str" -> IF v.s \in TrueStrings THEN Pass(JBool(TRUE), 0)
                      ELSE IF v.s \in FalseStrings THEN Pass(JBool(FALSE), 0)
                      ELSE Fail(loc, "bool_parsing")
    [] OTHER -> Fail(loc, "bool_type")

\* the constraints of Field(...) on a validated string: the first one violated
ConstrainStr(r, args, loc) ==
  IF ~r.ok THEN r
  ELSE IF "max_length" \in DOMAIN args /\ Len(r.val.s) > args["max_length"]
  THEN Fail(loc, "string_too_long")
  ELSE IF "pattern" \in DOMAIN args /\ ~PatternMatches(args["pattern"], r.val.s)
  THEN Fail(loc, "string_pattern_mismatch")
  ELSE r

\* n (+ 0.5) <= bound and n (+ 0.5) >= bound, for an integer bound
NumLe(val, bound) ==
  IF val.k = "float" /\ val.half THEN val.n < bound ELSE val.n <= bound
NumGe(val, bound) == val.n >= bound

\* the constraints of Field(...) on a validated number
ConstrainNum(r, args, loc) ==
  IF ~r.ok THEN r
  ELSE IF "le" \in DOMAIN args /\ ~NumLe(r.val, args["le"])
  THEN Fail(loc, "less_than_equal")
  ELSE IF "ge" \in DOMAIN args /\ ~NumGe(r.val, args["ge"])
  THEN Fail(loc, "greater_than_equal")
  ELSE r

ValidateLiteral(d, v, loc) ==
  IF \E i \in 1..Len(d.allowed) : d.allowed[i] = v
  THEN Pass(v, 2) ELSE Fail(loc, "literal_error")

\* the label of a union member in an error location
Label(d) ==
  CASE d.t = "model" -> d.name
    [] d.t = "list" -> "list[" \o d.item.t \o "]"
    [] OTHER -> d.t

\* whether a new successful member beats the best one so far
BeatsBest(best, r) ==
  IF best.fs >= 0 /\ r.fs >= 0 /\ best.fs # r.fs
  THEN best.fs < r.fs ELSE best.ex < r.ex

RECURSIVE Validate(_, _, _, _)
RECURSIVE ValidateItems(_, _, _, _)
RECURSIVE ValidateFields(_, _, _, _)
RECURSIVE ValidateSmart(_, _, _, _, _, _)

\* the first n items of a list
ValidateItems(item, l, loc, n) ==
  IF n = 0 THEN [vals |-> <<>>, ex |-> 2, fs |-> -1, errs |-> <<>>]
  ELSE LET prev == ValidateItems(item, l, loc, n - 1)
           r == Validate(item, EmptyDict, l[n], Append(loc, Idx(n - 1)))
       IN [vals |-> Append(prev.vals, r.val),
           ex |-> Min(prev.ex, r.ex),
           fs |-> AddFs(prev.fs, r.fs),
           errs |-> prev.errs \o r.errs]

ValidateList(d, v, loc) ==
  IF v.k # "list" THEN Fail(loc, "list_type")
  ELSE LET items == ValidateItems(d.item, v.l, loc, Len(v.l))
       IN IF Len(items.errs) > 0
          THEN [ok |-> FALSE, val |-> JNull, ex |-> 0, fs |-> -1, errs |-> items.errs]
          ELSE IF Len(v.l) < d.min_length THEN Fail(loc, "too_short")
          ELSE [ok |-> TRUE, val |-> JList(items.vals), ex |-> items.ex,
                fs |-> items.fs, errs |-> <<>>]

\* a variant that stops at the first field in error
ValidateFieldsFailFast(fields, m, loc, n) ==
  IF n = 0 THEN [vals |-> <<>>, ex |-> 1, fs |-> 0, errs |-> <<>>]
  ELSE LET prev == ValidateFields(fields, m, loc, n - 1)
           f == fields[n]
       IN IF Len(prev.errs) > 0 THEN prev
          ELSE IF f.name \in DOMAIN m
          THEN LET r == Validate(f.hint, f.args, m[f.name], Append(loc, Key(f.name)))
               IN [vals |-> Append(prev.vals, [name |-> f.name, value |-> r.val, set |-> TRUE]),
                   ex |-> Min(prev.ex, r.ex),
                   fs |-> AddFs(prev.fs + 1, r.fs),
                   errs |-> prev.errs \o r.errs]
          ELSE IF f.default = Ellipsis
          THEN [prev EXCEPT !.errs = Append(@, [loc |-> Append(loc, Key(f.name)),
                                                type |-> "missing"])]
          ELSE [prev EXCEPT !.vals = Append(@, [name |-> f.name, value |-> f.default,
                                                set |-> FALSE])]

\* the first n declared fields of a model, against the mapping m
ValidateFields(fields, m, loc, n) ==
  IF n = 0 THEN [vals |-> <<>>, ex |-> 1, fs |-> 0, errs |-> <<>>]
  ELSE LET prev == ValidateFields(fields, m, loc, n - 1)
           f == fields[n]
       IN IF f.name \in DOMAIN m
          THEN LET r == Validate(f.hint, f.args, m[f.name], Append(loc, Key(f.name)))
               IN [vals |-> Append(prev.vals, [name |-> f.name, value |-> r.val, set |-> TRUE]),
                   ex |-> Min(prev.ex, r.ex),
                   fs |-> AddFs(prev.fs + 1, r.fs),
                   errs |-> prev.errs \o r.errs]
          ELSE IF f.default = Ellipsis
          THEN [prev EXCEPT !.errs = Append(@, [loc |-> Append(loc, Key(f.name)),
                                                type |-> "missing"])]
          ELSE [prev EXCEPT !.vals = Append(@, [name |-> f.name, value |-> f.default,
                                                set |-> FALSE])]

ValidateModel(d, v, loc) ==
  IF v.k # "map" THEN Fail(loc, "model_type")
  ELSE LET r == ValidateFields(d.fields, v.m, loc, Len(d.fields))
       IN IF Len(r.errs) > 0
          THEN [ok |-> FALSE, val |-> JNull, ex |-> 0, fs |-> -1, errs |-> r.errs]
          ELSE [ok |-> TRUE, val |-> [k |-> "inst", fields |-> r.vals],
                ex |-> r.ex, fs |-> r.fs, errs |-> <<>>]

\* union members from the i-th on; best is the best success so far, errs the
\* errors of the members that failed before any succeeded
ValidateSmart(alts, v, loc, i, best, errs) ==
  IF i > Len(alts)
  THEN IF best.ok THEN best
       ELSE [ok |-> FALSE, val |-> JNull, ex |-> 0, fs |-> -1, errs |-> errs]
  ELSE LET r == Validate(alts[i], EmptyDict, v, Append(loc, Tag(Label(alts[i]))))
       IN IF r.ok /\ r.ex = 2 /\ r.fs < 0 THEN r
          ELSE IF r.ok
          THEN ValidateSmart(alts, v, loc, i + 1,
                             IF ~best.ok \/ BeatsBest(best, r) THEN r ELSE best, errs)
          ELSE ValidateSmart(alts, v, loc, i + 1, best,
                             IF best.ok THEN errs ELSE errs \o r.errs)

\* a variant that tries the first member only
ValidateFirstOnly(d, v, loc) ==
  Validate(d.alts[1], EmptyDict, v, Append(loc, Tag(Label(d.alts[1]))))

\* a variant that takes the first member that accepts the value, converted
\* or not
RECURSIVE FirstSuccess(_, _, _, _, _)
FirstSuccess(alts, v, loc, i, errs) ==
  IF i > Len(alts)
  THEN [ok |-> FALSE, val |-> JNull, ex |-> 0, fs |-> -1, errs |-> errs]
  ELSE LET r == Validate(alts[i], EmptyDict, v, Append(loc, Tag(Label(alts[i]))))
       IN IF r.ok THEN r ELSE FirstSuccess(alts, v, loc, i + 1, errs \o r.errs)

ValidateLeftToRight(d, v, loc) == FirstSuccess(d.alts, v, loc, 1, <<>>)

ValidateUnion(d, v, loc) ==
  ValidateSmart(d.alts, v, loc, 1, Fail(loc, "none"), <<>>)

Validate(d, args, v, loc) ==
  CASE d.t = "optional" -> IF v = JNull THEN Pass(JNull, 2)
                           ELSE Validate(d.inner, args, v, loc)
    [] d.t = "str" -> ConstrainStr(ValidateStr(v, loc), args, loc)
    [] d.t = "constr" -> ConstrainStr(ValidateStr(v, loc), "pattern" :> d.pattern, loc)
    [] d.t = "int" -> ConstrainNum(ValidateInt(v, loc), args, loc)
    [] d.t = "float" -> ConstrainNum(ValidateFloat(v, loc), args, loc)
    [] d.t = "bool" -> ValidateBool(v, loc)
    [] d.t = "any" -> Pass(v, 1)
    [] d.t = "literal" -> ValidateLiteral(d, v, loc)
    [] d.t = "list" -> ValidateList(d, v, loc)
    [] d.t = "model" -> ValidateModel(d, v, loc)
    [] d.t = "union" -> ValidateUnion(d, v, loc)

(***************************************************************************)
(* data.model_dump(exclude_unset=True): the fields the input set, in       *)
(* declaration order, nested models dumped the same way.                   *)
(***************************************************************************)
RECURSIVE ModelDump(_, _)
RECURSIVE DumpItems(_, _, _)
RECURSIVE DumpFields(_, _, _)

DumpItems(l, exclude_unset, n) ==
  IF n = 0 THEN <<>>
  ELSE Append(DumpItems(l, exclude_unset, n - 1), ModelDump(l[n], exclude_unset))

DumpFields(fields, exclude_unset, n) ==
  IF n = 0 THEN <<>>
  ELSE LET prev == DumpFields(fields, exclude_unset, n - 1)
           f == fields[n]
       IN IF exclude_unset /\ ~f.set THEN prev
          ELSE Append(prev, [name |-> f.name, value |-> ModelDump(f.value, exclude_unset)])

ModelDump(val, exclude_unset) ==
  CASE val.k = "inst" ->
         [k |-> "dict", items |-> DumpFields(val.fields, exclude_unset, Len(val.fields))]
    [] val.k = "list" -> JList(DumpItems(val.l, exclude_unset, Len(val.l)))
    [] OTHER -> val

(***************************************************************************)
(* yaml.dump(final_config, sort_keys=False): block style, one line per     *)
(* scalar, key or list item.  A line is its indentation, whether it opens  *)
(* a list item, its key ("" for none) and the text of its scalar.          *)
(***************************************************************************)
Chars(word) ==
  CASE word = "null" -> <<"n", "u", "l", "l">>
    [] word = "true" -> <<"t", "r", "u", "e">>
    [] word = "false" -> <<"f", "a", "l", "s", "e">>
    [] word = "{}" -> <<"{", "}">>
    [] word = "[]" -> <<"[", "]">>

\* a string that would read back as something else is quoted
NeedsQuotes(s) ==
  \/ Len(s) = 0
  \/ IsNumeral(s)
  \/ s \in TrueStrings \cup FalseStrings \cup {Chars("null")}

IsScalar(v) == v.k \in {"null", "bool", "int", "float", "str"}

YamlScalar(v) ==
  CASE v.k = "null" -> Chars("null")
    [] v.k = "bool" -> IF v.b THEN Chars("true") ELSE Chars("false")
    [] v.k = "int" -> IntToStr(v.n)
    [] v.k = "float" -> IntToStr(v.n) \o <<".", IF v.half THEN "5" ELSE "0">>
    [] v.k = "str" -> IF NeedsQuotes(v.s) THEN <<"'">> \o v.s \o <<"'">> ELSE v.s

\* an untyped mapping kept as it came (a field of type Any), as dict items
RECURSIVE MapItems(_)
MapItems(m) ==
  IF DOMAIN m = {} THEN <<>>
  ELSE LET key == CHOOSE key \in DOMAIN m : TRUE
       IN <<[name |-> key, value |-> m[key]]>>
          \o MapItems([other \in DOMAIN m \ {key} |-> m[other]])

ItemsOf(v) == IF v.k = "dict" THEN v.items ELSE MapItems(v.m)

Line(ind, dash, key, text) == [ind |-> ind, dash |-> dash, key |-> key, text |-> text]

RECURSIVE YamlNode(_, _)
RECURSIVE YamlDictItems(_, _, _)
RECURSIVE YamlListItems(_, _, _)

\* the lines of the first n items of a mapping
YamlDictItems(items, ind, n) ==
  IF n = 0 THEN <<>>
  ELSE LET prev == YamlDictItems(items, ind, n - 1)
           key == items[n].name
           v == items[n].value
       IN IF IsScalar(v) THEN Append(prev, Line(ind, FALSE, key, YamlScalar(v)))
          ELSE IF v.k = "list"
          THEN IF Len(v.l) = 0 THEN Append(prev, Line(ind, FALSE, key, Chars("[]")))
               ELSE Append(prev, Line(ind, FALSE, key, <<>>)) \o YamlNode(v, ind)
          ELSE IF Len(ItemsOf(v)) = 0
          THEN Append(prev, Line(ind, FALSE, key, Chars("{}")))
          ELSE Append(prev, Line(ind, FALSE, key, <<>>)) \o YamlNode(v, ind + 2)

\* the lines of the first n items of a list: "- " opens each item
YamlListItems(l, ind, n) ==
  IF n = 0 THEN <<>>
  ELSE LET prev == YamlListItems(l, ind, n - 1)
           v == l[n]
       IN IF IsScalar(v) THEN Append(prev, Line(ind, TRUE, "", YamlScalar(v)))
          ELSE IF (v.k = "list" /\ Len(v.l) = 0) \/ (v.k # "list" /\ Len(ItemsOf(v)) = 0)
          THEN Append(prev, Line(ind, TRUE, "",
                                 IF v.k = "list" THEN Chars("[]") ELSE Chars("{}")))
          ELSE LET lines == YamlNode(v, ind + 2)
               IN prev \o <<[lines[1] EXCEPT !.ind = ind, !.dash = TRUE]>> \o Tail(lines)

YamlNode(v, ind) ==
  IF v.k = "list" THEN YamlListItems(v.l, ind, Len(v.l))
  ELSE YamlDictItems(ItemsOf(v), ind, Len(ItemsOf(v)))

YamlDump(config) == YamlNode(config, 0)

(***************************************************************************)
(* The schema documents and request bodies explored.  A schema document    *)
(* has one field "f" (and, for the scalar fields, a second field "port");  *)
(* "f" ranges over scalar Field Specs of every type, requiredness, default *)
(* and constraint, over model and list[model] fields nested MaxDepth deep, *)
(* and over unions of up to MaxAlts alternatives.                          *)
(***************************************************************************)
sAb == <<"a", "b">>
sAB == <<"A", "B">>
s42 == <<"4", "2">>
sLong == <<"a", "b", "c", "d">>

\* ^[a-z]+$ over the letters used here
LowerPat == [cls |-> {"a", "b", "c", "d"}]

Opt(key, present, val) == IF present THEN key :> val ELSE EmptyDict

NoBag == EmptyDict
PatternBag == "pattern" :> LowerPat
LengthBag == "max_length" :> 3
RangeBag == ("ge" :> 1) @@ ("le" :> 65535)
ChoicesBag == "choices" :> <<JStr(sAb), JStr(sAB)>>
Bags == {NoBag, PatternBag, LengthBag, RangeBag, ChoicesBag}

ScalarTypes == {"", "str", "int", "float", "bool", "list[str]", "dict"}

DefaultFor(type) == IF type \in {"int", "float"} THEN JInt(8080) ELSE JStr(sAb)

ScalarProps(type, required, has_default, bag) ==
  Opt("type", type # "", type) @@ Opt("required", required, TRUE)
  @@ Opt("default", has_default, DefaultFor(type))
  @@ Opt("validation", bag # NoBag, bag)

BaseSpecs ==
  {ScalarProps(type, required, has_default, bag) :
     type \in ScalarTypes, required \in BOOLEAN, has_default \in BOOLEAN, bag \in Bags}

\* the scalar fields that nested models are built from
NestedBase ==
  {ScalarProps(tb[1], required, has_default, tb[2]) :
     tb \in {<<"str", NoBag>>, <<"str", PatternBag>>, <<"int", NoBag>>,
             <<"int", RangeBag>>, <<"list[str]", PatternBag>>},
     required \in BOOLEAN, has_default \in BOOLEAN}

CoreSpecs ==
  {ScalarProps("str", TRUE, FALSE, PatternBag), ScalarProps("int", FALSE, TRUE, RangeBag),
   ScalarProps("int", TRUE, TRUE, NoBag), ScalarProps("list[str]", TRUE, FALSE, PatternBag)}

PortSpec == ScalarProps("int", TRUE, FALSE, RangeBag)

Field(name, props) == [name |-> name, props |-> props]

\* a model or list[model] field with nested fields "a" and "port"
Wrap(kind, required, inner) ==
  ("type" :> kind) @@ Opt("required", required, TRUE)
  @@ ("model" :> ("fields" :> <<Field("a", inner), Field("port", PortSpec)>>))

ModelKinds == {"model", "list[model]"}

\* model fields that lack model.fields, with and without choices
Fieldless ==
  {("type" :> kind) @@ extra :
     kind \in ModelKinds,
     extra \in {EmptyDict, "model" :> EmptyDict, "validation" :> ChoicesBag}}

RECURSIVE CoreAt(_)
CoreAt(depth) ==
  IF depth = 0 THEN CoreSpecs \cup {("type" :> "model"), ("type" :> "model") @@ ("validation" :> ChoicesBag)}
  ELSE {Wrap(kind, TRUE, inner) : kind \in ModelKinds, inner \in CoreAt(depth - 1)}

NestedAt(depth) ==
  {Wrap(kind, required, inner) :
     kind \in ModelKinds, required \in BOOLEAN,
     inner \in IF depth = 1 THEN NestedBase \cup CoreAt(0) ELSE CoreAt(depth - 1)}

NestedSpecs == UNION {NestedAt(depth) : depth \in 1..MaxDepth}

ModelA == ("type" :> "model") @@ ("model" :> ("fields" :> <<Field("a", ScalarProps("str", TRUE, FALSE, NoBag))>>))
ModelB == ("type" :> "model")
          @@ ("model" :> ("fields" :> <<Field("a", ScalarProps("str", FALSE, FALSE, NoBag)),
                                        Field("b", ScalarProps("int", FALSE, FALSE, NoBag))>>))

AltSpecs ==
  {"type" :> "int", "type" :> "str", "type" :> "float", "type" :> "bool",
   ScalarProps("int", FALSE, FALSE, RangeBag), ScalarProps("str", FALSE, FALSE, PatternBag),
   ScalarProps("list[str]", FALSE, FALSE, NoBag), ModelA, ModelB, "type" :> "model"}

Injective(seq) == \A i, j \in 1..Len(seq) : seq[i] = seq[j] => i = j

AltSeqs ==
  {alts \in UNION {[1..n -> AltSpecs] : n \in 1..MaxAlts} : Injective(alts)}

UnionSpecs ==
  {("union" :> alts) @@ Opt("required", required, TRUE) :
     alts \in AltSeqs, required \in BOOLEAN}
  \cup {("union" :> <<"type" :> "int", "type" :> "str">>) @@ extra :
          extra \in {"type" :> "model", "type" :> "list[model]", "validation" :> ChoicesBag}}
  \cup {"union" :> <<("union" :> <<"type" :> "int", "type" :> "str">>), "type" :> "int", "type" :> "float">>}

\* the schema documents: their fields and, for some, a root_key
SchemaDocs ==
  {("fields" :> <<Field("f", props), Field("port", PortSpec)>>) @@ root_key :
     props \in BaseSpecs, root_key \in {EmptyDict}}
  \cup {("fields" :> <<Field("f", props)>>) @@ root_key :
     props \in NestedSpecs \cup UnionSpecs \cup Fieldless,
     root_key \in {EmptyDict}}
  \cup {("fields" :> <<Field("f", props)>>) @@ ("root_key" :> "cfg") :
     props \in CoreSpecs}

(***************************************************************************)
(* Request bodies.  For a field, every scalar, the empty list and mapping, *)
(* and the values of the field's own shape; inside nested models a value   *)
(* that fits, one that does not, and a third of another kind.              *)
(***************************************************************************)
Scalars ==
  {JNull, JBool(TRUE), JInt(0), JInt(42), JInt(70000), JFloat(42, FALSE),
   JFloat(42, TRUE), JStr(sAb), JStr(sAB), JStr(s42), JStr(sLong)}

ResolvedKind(props) ==
  IF "union" \in DOMAIN props THEN "union"
  ELSE IF "choices" \in DOMAIN Get(props, "validation", EmptyDict) THEN "choices"
  ELSE Get(props, "type", "str")

RECURSIVE GoodVal(_)
RECURSIVE BadVal(_)
RECURSIVE MapOf(_, _, _)

\* the mapping that gives each of the first n fields its good (or bad) value
MapOf(fields, good, n) ==
  IF n = 0 THEN EmptyDict
  ELSE MapOf(fields, good, n - 1)
       @@ (fields[n].name :> IF good THEN GoodVal(fields[n].props)
                             ELSE BadVal(fields[n].props))

NestedOf(props) ==
  IF HasNestedFields(props) THEN props["model"]["fields"] ELSE <<>>

GoodVal(props) ==
  LET kind == ResolvedKind(props)
      fields == NestedOf(props)
  IN CASE kind = "union" -> GoodVal(props["union"][1])
       [] kind \in {"int", "float"} -> JInt(42)
       [] kind = "bool" -> JBool(TRUE)
       [] kind = "list[str]" -> JList(<<JStr(sAb)>>)
       [] kind = "model" -> JMap(MapOf(fields, TRUE, Len(fields)))
       [] kind = "list[model]" -> JList(<<JMap(MapOf(fields, TRUE, Len(fields)))>>)
       [] OTHER -> JStr(sAb)

BadVal(props) ==
  LET kind == ResolvedKind(props)
      fields == NestedOf(props)
  IN CASE kind = "union" -> JList(<<JInt(0)>>)
       [] kind \in {"int", "float"} -> JInt(70000)
       [] kind = "list[str]" -> JList(<<JStr(sAB)>>)
       [] kind = "model" -> JMap(MapOf(fields, FALSE, Len(fields)))
       [] kind = "list[model]" ->
            JList(IF MaxLen >= 2
                  THEN <<JMap(MapOf(fields, TRUE, Len(fields))),
                         JMap(MapOf(fields, FALSE, Len(fields)))>>
                  ELSE <<JMap(MapOf(fields, FALSE, Len(fields)))>>)
       [] OTHER -> JStr(sAB)

ThirdVal(props) ==
  LET kind == ResolvedKind(props)
  IN CASE kind = "model" -> JMap(EmptyDict)
       [] kind \in {"list[model]", "list[str]"} -> JList(<<>>)
       [] OTHER -> JNull

Reduced(props) == {GoodVal(props), BadVal(props), ThirdVal(props)}

\* the mappings over the first n fields: each field absent or one of Reduced
RECURSIVE MapsOver(_, _)
MapsOver(fields, n) ==
  IF n = 0 THEN {EmptyDict}
  ELSE {m @@ ext : m \in MapsOver(fields, n - 1),
                   ext \in {EmptyDict} \cup {fields[n].name :> v : v \in Reduced(fields[n].props)}}

SeqsUpTo(S, n) == UNION {[1..len -> S] : len \in 0..n}

StrLists == {JList(l) : l \in SeqsUpTo({JStr(sAb), JStr(sAB)}, MaxLen)}

RECURSIVE Shaped(_)
RECURSIVE ShapedAlts(_, _)

\* the values shaped like one of the first n alternatives
ShapedAlts(alts, n) ==
  IF n = 0 THEN {} ELSE ShapedAlts(alts, n - 1) \cup Shaped(alts[n])

\* the values of the field's own shape
Shaped(props) ==
  LET kind == ResolvedKind(props)
      fields == NestedOf(props)
      maps == {JMap(m) : m \in MapsOver(fields, Len(fields))}
      tails == SeqsUpTo({JMap(MapOf(fields, TRUE, Len(fields))),
                         JMap(MapOf(fields, FALSE, Len(fields)))}, MaxLen - 1)
  IN CASE kind = "union" -> ShapedAlts(props["union"], Len(props["union"]))
       [] kind = "list[str]" -> StrLists
       [] kind = "model" -> maps
       [] kind = "list[model]" ->
            {JList(<<first>> \o tail) : first \in maps \cup {JStr(sAb)}, tail \in tails}
       [] OTHER -> {}

Candidates(props) ==
  Scalars \cup {JList(<<>>), JMap(EmptyDict)} \cup Shaped(props)

RECURSIVE RootMaps(_, _)
\* the root mappings: "f" absent or a candidate, later fields absent or Reduced
RootMaps(fields, n) ==
  IF n = 0 THEN {EmptyDict}
  ELSE {m @@ ext : m \in RootMaps(fields, n - 1),
                   ext \in {EmptyDict} \cup
                           {fields[n].name :> v :
                              v \in IF n = 1 THEN Candidates(fields[n].props)
                                    ELSE Reduced(fields[n].props)}}

\* bodies that are no mapping, and one that is no JSON
OtherBodies == {JList(<<>>), JStr(sAb), JInt(42), JNull, JBool(TRUE), Malformed}

Bodies(doc) ==
  {JMap(m) : m \in RootMaps(doc["fields"], Len(doc["fields"]))}
  \cup {JMap(("zz" :> JInt(0)) @@ MapOf(doc["fields"], TRUE, Len(doc["fields"])))}
  \cup OtherBodies

(***************************************************************************)
(* The request: POST /generate-config/{model_name}.                        *)
(***************************************************************************)
None == [k |-> "None"]
NoResponse == [status |-> 0, detail |-> <<>>, content |-> <<>>]
HTTPException(status, detail) == [status |-> status, detail |-> detail, content |-> <<>>]
PlainTextResponse(content) == [status |-> 200, detail |-> <<>>, content |-> content]
Raised(name) == <<[loc |-> <<>>, type |-> name]>>

\* schema_path.exists()
SchemaExists(files, model_name) == model_name \in DOMAIN files

\* ModelService.create_dynamic_model, once the schema is loaded
CreateDynamicModelFrom(model_name, schema) ==
  CreateModelFromSchema(model_name, schema["fields"])

\* DynamicModel(**json_data) for a mapping
Instantiate(model, data) == Validate(model, EmptyDict, data, <<>>)

\* schema.get('root_key', model_name)
RootKey(schema, model_name) == Get(schema, "root_key", model_name)

\* a variant that dumps the fields the input did not set as well
ConfigDictWithUnset(data) == ModelDump(data, FALSE)

\* data.model_dump(exclude_unset=True)
ConfigDict(data) == ModelDump(data, TRUE)

\* {root_key: config_dict}
FinalConfig(root_key, config_dict) ==
  [k |-> "dict", items |-> <<[name |-> root_key, value |-> config_dict]>>]

Init ==
  /\ pc = "start"
  /\ \E doc \in SchemaDocs :
       /\ data_models = ("app" :> doc)
       /\ \E body \in Bodies(doc) :
            \E model_name \in IF body \in OtherBodies \cup {JMap(EmptyDict)}
                              THEN {"app", "ghost"} ELSE {"app"} :
              request = [model_name |-> model_name, body |-> body]
  /\ DynamicModel = None
  /\ json_data = None
  /\ validated_data = None
  /\ final_config = None
  /\ response = NoResponse
  /\ stages = <<>>

Respond(resp) ==
  /\ response' = resp
  /\ pc' = "done"

\* line 35: load the schema and build the model
CreateDynamicModel ==
  /\ pc = "start"
  /\ IF ~SchemaExists(data_models, request.model_name)
     THEN /\ Respond(HTTPException(404, Raised("SchemaNotFoundError")))
          /\ stages' = Append(stages, "load")
          /\ UNCHANGED DynamicModel
     ELSE LET model == CreateDynamicModelFrom(request.model_name,
                                              data_models[request.model_name])
          IN /\ stages' = stages \o <<"load", "compile">>
             /\ IF model = KeyError
                THEN /\ Respond(HTTPException(500, Raised("KeyError")))
                     /\ UNCHANGED DynamicModel
                ELSE /\ DynamicModel' = model
                     /\ pc' = "created"
                     /\ UNCHANGED response
  /\ UNCHANGED <<request, data_models, json_data, validated_data, final_config>>

\* line 36: parse the body
RequestJson ==
  /\ pc = "created"
  /\ stages' = Append(stages, "parse")
  /\ IF request.body = Malformed
     THEN /\ Respond(HTTPException(500, Raised("JSONDecodeError")))
          /\ UNCHANGED json_data
     ELSE /\ json_data' = request.body
          /\ pc' = "parsed"
          /\ UNCHANGED response
  /\ UNCHANGED <<request, data_models, DynamicModel, validated_data, final_config>>

\* line 37: validate the body; ** takes a mapping only
ValidateData ==
  /\ pc = "parsed"
  /\ stages' = Append(stages, "validate")
  /\ IF json_data.k # "map"
     THEN /\ Respond(HTTPException(500, Raised("TypeError")))
          /\ UNCHANGED validated_data
     ELSE LET r == Instantiate(DynamicModel, json_data)
          IN IF r.ok
             THEN /\ validated_data' = r.val
                  /\ pc' = "validated"
                  /\ UNCHANGED response
             ELSE /\ Respond(HTTPException(422, r.errs))
                  /\ UNCHANGED validated_data
  /\ UNCHANGED <<request, data_models, DynamicModel, json_data, final_config>>

\* lines 38-39: dump the validated data under the root key, as YAML
GenerateConfig ==
  /\ pc = "validated"
  /\ stages' = Append(stages, "serialize")
  /\ IF ~SchemaExists(data_models, request.model_name)
     THEN /\ Respond(HTTPException(404, Raised("SchemaNotFoundError")))
          /\ UNCHANGED final_config
     ELSE LET schema == data_models[request.model_name]
              config == FinalConfig(RootKey(schema, request.model_name),
                                    ConfigDict(validated_data))
          IN /\ final_config' = config
             /\ Respond(PlainTextResponse(YamlDump(config)))
  /\ UNCHANGED <<request, data_models, DynamicModel, json_data, validated_data>>

Next ==
  \/ CreateDynamicModel
  \/ RequestJson
  \/ ValidateData
  \/ GenerateConfig

Spec == Init /\ [][Next]_vars

(***************************************************************************)
(* What the properties below speak of.                                     *)
(***************************************************************************)
Schema == data_models["app"]
SchemaFields == Schema["fields"]
\* the Field Spec of "f" and the input's value for it
FProps == SchemaFields[1].props
Compiled == DynamicModel # None
CompileFailed == pc = "done" /\ response.detail = Raised("KeyError")
Validated == pc = "done" /\ json_data # None /\ json_data.k = "map"
Report == IF response.status = 422 THEN response.detail ELSE <<>>
Document == final_config.items[1].value
IsRequired(props) == Get(props, "required", FALSE)
Unwrapped(hint) == IF hint.t = "optional" THEN hint.inner ELSE hint
SeqSet(seq) == {seq[i] : i \in 1..Len(seq)}
IsPrefix(p, q) == Len(p) <= Len(q) /\ SubSeq(q, 1, Len(p)) = p

(***************************************************************************)
(* C8.  Field resolution follows a fixed precedence: union first, then     *)
(* validation.choices whatever the declared type, then model, list[model], *)
(* list[str] and the scalar types, an unknown type being Any.              *)
(***************************************************************************)
Members(d) == IF d.t = "union" THEN SeqSet(d.alts) ELSE {d}

RECURSIVE Fits(_, _)
RECURSIVE FieldsFit(_, _, _)

\* the first n nested Field Specs resolve to the first n fields of the model
FieldsFit(nested, fields, n) ==
  \A i \in 1..n :
    /\ fields[i].name = nested[i].name
    /\ LET d == Unwrapped(fields[i].hint)
       IN /\ \A m \in Members(d) : Fits(nested[i].props, m)
          /\ "union" \notin DOMAIN nested[i].props => d.t # "union"

\* the Field Spec resolves to the (non-union) type m by the stated precedence
Fits(props, m) ==
  LET validation == Get(props, "validation", EmptyDict)
      type == Get(props, "type", "str")
      nested == props["model"]["fields"]
  IN IF "union" \in DOMAIN props
     THEN \E i \in 1..Len(props["union"]) : Fits(props["union"][i], m)
     ELSE IF "choices" \in DOMAIN validation
     THEN m.t = "literal" /\ m.allowed = validation["choices"]
     ELSE IF type = "model"
     THEN m.t = "model" /\ Len(m.fields) = Len(nested)
          /\ FieldsFit(nested, m.fields, Len(nested))
     ELSE IF type = "list[model]"
     THEN m.t = "list" /\ m.item.t = "model" /\ Len(m.item.fields) = Len(nested)
          /\ FieldsFit(nested, m.item.fields, Len(nested))
     ELSE IF type = "list[str]"
     THEN m.t = "list" /\ m.item.t \in {"str", "constr"}
     ELSE IF type \in {"str", "int", "bool", "float"}
     THEN m.t = type
     ELSE m.t = "any"

RECURSIVE Covered(_, _)
\* every alternative of a union is among the members
Covered(props, ms) ==
  IF "union" \in DOMAIN props
  THEN \A i \in 1..Len(props["union"]) : Covered(props["union"][i], ms)
  ELSE \E m \in ms : Fits(props, m)

C8_ResolutionPrecedence ==
  Compiled =>
    /\ Len(DynamicModel.fields) = Len(SchemaFields)
    /\ FieldsFit(SchemaFields, DynamicModel.fields, Len(SchemaFields))
    /\ \A i \in 1..Len(SchemaFields) :
         Covered(SchemaFields[i].props, Members(Unwrapped(DynamicModel.fields[i].hint)))

\* a field declaring both type model and choices was resolved to the choices
C8_Witness ==
  /\ Compiled
  /\ Get(FProps, "type", "str") \in ModelKinds
  /\ "union" \notin DOMAIN FProps
  /\ Unwrapped(DynamicModel.fields[1].hint).t = "literal"

(***************************************************************************)
(* C6.  Building the model fails exactly when a field omits model.fields   *)
(* although it is resolved as model or list[model]; a failure ends the     *)
(* request before the body is parsed or validated.                         *)
(***************************************************************************)
RECURSIVE DeclaredOmits(_)

\* the original reading: a field whose declared type is model or list[model]
\* omits model.fields, at any depth, union alternatives included
DeclaredOmits(props) ==
  \/ Get(props, "type", "str") \in ModelKinds /\ ~HasNestedFields(props)
  \/ "union" \in DOMAIN props
       /\ \E i \in 1..Len(props["union"]) : DeclaredOmits(props["union"][i])
  \/ HasNestedFields(props)
       /\ \E i \in 1..Len(props["model"]["fields"]) :
            DeclaredOmits(props["model"]["fields"][i].props)

RECURSIVE ResolvedOmits(_)
\* the same for the fields that resolution reaches
ResolvedOmits(props) ==
  LET kind == ResolvedKind(props)
  IN CASE kind = "union" ->
            \E i \in 1..Len(props["union"]) : ResolvedOmits(props["union"][i])
       [] kind \in ModelKinds ->
            \/ ~HasNestedFields(props)
            \/ \E i \in 1..Len(props["model"]["fields"]) :
                 ResolvedOmits(props["model"]["fields"][i].props)
       [] OTHER -> FALSE

Loaded == pc # "start" /\ request.model_name = "app"

C6_Original ==
  Loaded => (CompileFailed <=> \E i \in 1..Len(SchemaFields) : DeclaredOmits(SchemaFields[i].props))

C6_CompileFailsIffResolvedModelOmitsFields ==
  Loaded =>
    /\ CompileFailed <=> \E i \in 1..Len(SchemaFields) : ResolvedOmits(SchemaFields[i].props)
    /\ ~CompileFailed => Compiled
    /\ CompileFailed =>
         /\ response.status = 500
         /\ stages = <<"load", "compile">>
         /\ json_data = None /\ validated_data = None /\ final_config = None

\* a model alternative without model.fields, inside a union, failed the build
C6_Witness ==
  /\ CompileFailed
  /\ "union" \in DOMAIN FProps
  /\ Len(FProps["union"]) >= 2
  /\ ~DeclaredOmits(FProps["union"][1])

(***************************************************************************)
(* C1.  Every required field without a default that is absent from the     *)
(* mapping it belongs to (the root, a nested model, a list[model] item)    *)
(* has exactly one "missing" error at its path, and the request is         *)
(* answered with the report, not with a document.                          *)
(***************************************************************************)
RECURSIVE AbsentRequired(_, _, _, _)
RECURSIVE AbsentInItems(_, _, _, _, _)

\* the paths of the required fields absent from the mapping m; with_default
\* says whether a required field that declares a default counts
AbsentRequired(fields, m, loc, with_default) ==
  UNION {
    LET props == fields[i].props
        name == fields[i].name
        kind == ResolvedKind(props)
        here == Append(loc, Key(name))
    IN IF name \notin DOMAIN m
       THEN IF IsRequired(props) /\ (with_default \/ "default" \notin DOMAIN props)
            THEN {here} ELSE {}
       ELSE IF kind = "model" /\ m[name].k = "map"
       THEN AbsentRequired(props["model"]["fields"], m[name].m, here, with_default)
       ELSE IF kind = "list[model]" /\ m[name].k = "list"
       THEN AbsentInItems(props["model"]["fields"], m[name].l, here, with_default,
                          Len(m[name].l))
       ELSE {}
    : i \in 1..Len(fields)}

\* the same in the first n items of a list[model] value
AbsentInItems(fields, l, loc, with_default, n) ==
  UNION {IF l[i].k = "map"
         THEN AbsentRequired(fields, l[i].m, Append(loc, Idx(i - 1)), with_default)
         ELSE {} : i \in 1..n}

MissingAt(path) ==
  {i \in 1..Len(Report) : Report[i].loc = path /\ Report[i].type = "missing"}

MissingReported(with_default) ==
  LET absent == AbsentRequired(SchemaFields, json_data.m, <<>>, with_default)
  IN /\ \A path \in absent : Cardinality(MissingAt(path)) = 1
     /\ absent # {} => response.status = 422 /\ Len(Report) > 0 /\ final_config = None

C1_Original == Validated /\ "validate" \in SeqSet(stages) => MissingReported(TRUE)

C1_MissingRequiredWithoutDefault ==
  Validated /\ "validate" \in SeqSet(stages) => MissingReported(FALSE)

\* a required field of a list item is absent and reported at its path
C1_Witness ==
  /\ Validated
  /\ response.status = 422
  /\ \E path \in AbsentRequired(SchemaFields, json_data.m, <<>>, FALSE) :
       Len(path) = 3 /\ path[2] = Idx(0) /\ Cardinality(MissingAt(path)) = 1

(***************************************************************************)
(* C2.  In a successful request an optional field that the input does not  *)
(* supply is absent from the document handed to the serializer, at every   *)
(* level: neither null nor its declared default stands in for it.          *)
(***************************************************************************)
DictKeys(doc) == {doc.items[i].name : i \in 1..Len(doc.items)}
DictValue(doc, name) ==
  doc.items[CHOOSE i \in 1..Len(doc.items) : doc.items[i].name = name].value

RECURSIVE UnsetAbsent(_, _, _)
RECURSIVE UnsetAbsentIn(_, _, _)

\* for the declared fields, against the input mapping m and the dumped dict
UnsetAbsent(fields, m, doc) ==
  \A i \in 1..Len(fields) :
    LET props == fields[i].props
        name == fields[i].name
    IN /\ ~IsRequired(props) /\ name \notin DOMAIN m => name \notin DictKeys(doc)
       /\ name \in DOMAIN m /\ name \in DictKeys(doc)
            => UnsetAbsentIn(props, m[name], DictValue(doc, name))

\* for one field's input value and its dumped value
UnsetAbsentIn(props, v, dumped) ==
  LET kind == ResolvedKind(props)
  IN CASE kind = "union" ->
            \A i \in 1..Len(props["union"]) :
              ResolvedKind(props["union"][i]) = "model" /\ dumped.k = "dict"
                => UnsetAbsentIn(props["union"][i], v, dumped)
       [] kind = "model" /\ dumped.k = "dict" /\ v.k = "map" ->
            UnsetAbsent(props["model"]["fields"], v.m, dumped)
       [] kind = "list[model]" /\ dumped.k = "list" /\ v.k = "list" ->
            /\ Len(dumped.l) = Len(v.l)
            /\ \A j \in 1..Len(v.l) :
                 dumped.l[j].k = "dict" /\ v.l[j].k = "map"
                   => UnsetAbsent(props["model"]["fields"], v.l[j].m, dumped.l[j])
       [] OTHER -> TRUE

C2_UnsetOptionalAbsent ==
  pc = "done" /\ response.status = 200 =>
    /\ Document.k = "dict"
    /\ UnsetAbsent(SchemaFields, json_data.m, Document)

\* optional int "f" with a default, not supplied: the document has no "f"
C2_Witness ==
  /\ pc = "done" /\ response.status = 200
  /\ ~IsRequired(FProps) /\ "default" \in DOMAIN FProps
  /\ Get(FProps, "type", "str") = "int"
  /\ "f" \notin DOMAIN json_data.m
  /\ "f" \notin DictKeys(Document)

(***************************************************************************)
(* Union fields: "f" declares a union and the input supplies a value.      *)
(***************************************************************************)
UnionCase ==
  /\ Validated /\ "validate" \in SeqSet(stages)
  /\ "union" \in DOMAIN FProps
  /\ "f" \in DOMAIN json_data.m
FValue == json_data.m["f"]
FAlts == FProps["union"]
\* validating the input's value against the i-th alternative alone
AltAlone(i) == Validate(ParseTypeDefinition("app", "f", FAlts[i]), EmptyDict, FValue, <<>>)
FirstMatch(i) == AltAlone(i).ok /\ \A j \in 1..(i - 1) : ~AltAlone(j).ok
\* the alternative takes the value as it is: nothing is converted or built
MatchesExactly(i) == AltAlone(i).ex = 2 /\ AltAlone(i).fs < 0
UnionYields(val) ==
  /\ response.status = 200
  /\ validated_data.fields[1].value = val

(***************************************************************************)
(* C3.  If the value validates against alternative i and no earlier one,   *)
(* and either alternative i takes the value as it is or no later           *)
(* alternative validates it, the union yields what alternative i yields.   *)
(***************************************************************************)
C3_Original ==
  UnionCase => \A i \in 1..Len(FAlts) : FirstMatch(i) => UnionYields(AltAlone(i).val)

C3_FirstMatchWinsWhenExactOrOnly ==
  UnionCase =>
    \A i \in 1..Len(FAlts) :
      /\ FirstMatch(i)
      /\ MatchesExactly(i) \/ \A j \in (i + 1)..Len(FAlts) : ~AltAlone(j).ok
      => UnionYields(AltAlone(i).val)

\* the second alternative is the first to match and yields the value
C3_Witness ==
  /\ UnionCase
  /\ Len(FAlts) >= 2
  /\ FirstMatch(2)
  /\ UnionYields(AltAlone(2).val)

(***************************************************************************)
(* C4.  For a union of {type: int} then {type: str}, a string input is     *)
(* validated to the same string: "42" stays "42", it does not become 42.   *)
(***************************************************************************)
IntThenStr == FAlts = <<"type" :> "int", "type" :> "str">>

C4_StringStaysString ==
  UnionCase /\ IntThenStr /\ FValue.k = "str" => UnionYields(FValue)

C4_Witness ==
  /\ UnionCase /\ IntThenStr
  /\ FValue = JStr(s42)
  /\ UnionYields(JStr(s42))

(***************************************************************************)
(* C5.  Validation does not stop at the first violation: every field and   *)
(* list element that violates its type has an error in the report, whose   *)
(* location is the full path from the root; for a union field the path is  *)
(* followed by the label of the alternative that rejected the value.       *)
(***************************************************************************)
RECURSIVE Violations(_, _, _, _)
RECURSIVE FieldViolations(_, _, _)

\* the places where v violates the type hint d: a place is a path and
\* whether a union stands there
Violations(d, args, v, loc) ==
  CASE d.t = "optional" ->
         IF v = JNull THEN {} ELSE Violations(d.inner, args, v, loc)
    [] d.t = "model" /\ v.k = "map" -> FieldViolations(d.fields, v.m, loc)
    [] d.t = "list" /\ v.k = "list" /\ Len(v.l) > 0 ->
         UNION {Violations(d.item, EmptyDict, v.l[i], Append(loc, Idx(i - 1))) :
                  i \in 1..Len(v.l)}
    [] OTHER ->
         IF Validate(d, args, v, loc).ok THEN {}
         ELSE {[path |-> loc, union |-> d.t = "union"]}

FieldViolations(fields, m, loc) ==
  UNION {IF fields[i].name \in DOMAIN m
         THEN Violations(fields[i].hint, fields[i].args, m[fields[i].name],
                         Append(loc, Key(fields[i].name)))
         ELSE IF fields[i].default = Ellipsis
         THEN {[path |-> Append(loc, Key(fields[i].name)), union |-> FALSE]}
         ELSE {} : i \in 1..Len(fields)}

IsTag(step) == DOMAIN step = {"tag"}

ReportedExactly(place) == \E i \in 1..Len(Report) : Report[i].loc = place.path
ReportedUnderLabel(place) ==
  \E i \in 1..Len(Report) :
    /\ IsPrefix(place.path, Report[i].loc)
    /\ Len(Report[i].loc) > Len(place.path)
    /\ IsTag(Report[i].loc[Len(place.path) + 1])

AllReported(Reported(_)) ==
  LET places == Violations(DynamicModel, EmptyDict, json_data, <<>>)
  IN /\ \A place \in places : Reported(place)
     /\ places # {} => response.status = 422

ReportedAtPath(place) ==
  IF place.union THEN ReportedUnderLabel(place) ELSE ReportedExactly(place)

Gated == {"pattern", "max_length", "ge", "le"}

\* the declared types on which the spec has a constraint enforced
GateOf(key) == IF key \in {"pattern", "max_length"} THEN {"str"} ELSE {"int", "float"}
\* the same, with the elements of list[str] under pattern
GateWithElements(key) ==
  IF key = "pattern" THEN {"str", "list[str]"} ELSE GateOf(key)

\* a Field Spec without the constraints that its declared type leaves out
Ungated(props, Gate(_)) ==
  IF "validation" \notin DOMAIN props THEN props
  ELSE LET validation == props["validation"]
           kept == {key \in DOMAIN validation :
                      key \in Gated => Get(props, "type", "") \in Gate(key)}
       IN [key \in DOMAIN props |->
             IF key = "validation" THEN [c \in kept |-> validation[c]] ELSE props[key]]

UngatedFields(Gate(_)) ==
  [i \in 1..Len(SchemaFields) |->
     Field(SchemaFields[i].name, Ungated(SchemaFields[i].props, Gate))]

\* the response is the one the schema without those constraints gives
SameAsUngated(Gate(_)) ==
  LET model == CreateModelFromSchema("app", UngatedFields(Gate))
  IN /\ CompileFailed => model = KeyError
     /\ Validated /\ "validate" \in SeqSet(stages) =>
          LET r == Instantiate(model, json_data)
          IN IF r.ok
             THEN response.status = 200 /\ validated_data = r.val
             ELSE response.status = 422 /\ response.detail = r.errs

\* the input's value for "f" breaks a constraint declared on its type
FConstraint(key) == FProps["validation"][key]
BreaksConstraint ==
  /\ "f" \in DOMAIN json_data.m
  /\ "union" \notin DOMAIN FProps
  /\ "type" \in DOMAIN FProps /\ "validation" \in DOMAIN FProps
  /\ "choices" \notin DOMAIN FProps["validation"]
  /\ LET v == json_data.m["f"]
         has(key) == key \in DOMAIN FProps["validation"]
     IN \/ /\ FProps["type"] = "str" /\ v.k = "str"
           /\ \/ has("pattern") /\ ~PatternMatches(FConstraint("pattern"), v.s)
              \/ has("max_length") /\ Len(v.s) > FConstraint("max_length")
        \/ /\ FProps["type"] \in {"int", "float"} /\ v.k = "int"
           /\ \/ has("ge") /\ v.n < FConstraint("ge")
              \/ has("le") /\ v.n > FConstraint("le")

\* the input's list for "f" is empty or has a string that breaks the pattern
\* declared on list[str]
BreaksElements ==
  /\ "f" \in DOMAIN json_data.m
  /\ "union" \notin DOMAIN FProps
  /\ Get(FProps, "type", "") = "list[str]"
  /\ DOMAIN Get(FProps, "validation", EmptyDict) = {"pattern"}
  /\ LET v == json_data.m["f"]
     IN /\ v.k = "list"
        /\ \/ Len(v.l) = 0
           \/ \E i \in 1..Len(v.l) :
                v.l[i].k = "str" /\ ~PatternMatches(FConstraint("pattern"), v.l[i].s)

Enforced(breaks) ==
  Validated /\ "validate" \in SeqSet(stages) /\ breaks =>
    /\ response.status = 422
    /\ \E i \in 1..Len(Report) : IsPrefix(<<Key("f")>>, Report[i].loc)

C9_Original == SameAsUngated(GateOf) /\ Enforced(BreaksConstraint)

C9_ConstraintsTypeGated ==
  SameAsUngated(GateWithElements) /\ Enforced(BreaksConstraint \/ BreaksElements)

\* a str field with ge and le takes a string, a float field refuses a number
\* above le, a list[str] field refuses an element that breaks the pattern
C9_Witness ==
  /\ Validated /\ "f" \in DOMAIN json_data.m
  /\ \/ /\ Get(FProps, "type", "") = "str" /\ Get(FProps, "validation", EmptyDict) = RangeBag
        /\ json_data.m["f"].k = "str"
        /\ response.status = 200
     \/ /\ Get(FProps, "type", "") = "float" /\ BreaksConstraint
        /\ response.status = 422
     \/ /\ BreaksElements /\ Len(json_data.m["f"].l) > 0
        /\ response.status = 422

(***************************************************************************)
(* C7.  The response is "not found" exactly when no schema exists for the  *)
(* name; otherwise an input that violates the schema, a non-mapping        *)
(* included, gets a client error with the violations, and any other input  *)
(* gets the serialized text of {root_key: document}.                       *)
(***************************************************************************)
InputViolates ==
  \/ request.body.k # "map"
  \/ ~Instantiate(DynamicModel, request.body).ok

C7_ResponseMapping ==
  pc = "done" =>
    IF ~SchemaExists(data_models, request.model_name)
    THEN response.status = 404
    ELSE /\ response.status # 404
         /\ Compiled /\ request.body # Malformed =>
              IF InputViolates
              THEN response.status = 422 /\ Len(response.detail) > 0
              ELSE /\ response.status = 200
                   /\ response.content =
                        YamlDump(FinalConfig(RootKey(Schema, "app"),
                                             ModelDump(validated_data, TRUE)))

(***************************************************************************)
(* C10.  A value that every scalar alternative of a union refuses when     *)
(* that alternative is the Field Spec of a field of its own, constraints   *)
(* included, is refused by the union.                                      *)
(***************************************************************************)
ScalarAlternative(alt) ==
  /\ "union" \notin DOMAIN alt
  /\ Get(alt, "type", "") \in {"str", "int", "float", "bool"}

\* the alternative as the Field Spec of a required field of its own
FieldAlone(i) ==
  LET field == ModelField("app", "f", ("required" :> TRUE) @@ FAlts[i])
  IN Validate(field.hint, field.args, FValue, <<>>)

C10_AlternativeConstraintsEnforced ==
  /\ UnionCase /\ FValue # JNull
  /\ \A i \in 1..Len(FAlts) : ScalarAlternative(FAlts[i]) /\ ~FieldAlone(i).ok
  => response.status = 422

====
